---- MODULE Spec2Model ----
(***************************************************************************)
(* Resume-to-job matching backend: the Match Ranker                        *)
(* (rag_engine/gemini_matcher.py) and the Job Aggregator                   *)
(* (rag_engine/job_fetcher.py), modelled as state machines.                *)
(*                                                                         *)
(*   SpecMatch : one call of GeminiMatcher.match_resume_to_jobs            *)
(*   SpecFetch : one call of RealJobFetcher.fetch_jobs, one step per       *)
(*               provider request                                          *)
(***************************************************************************)
EXTENDS Integers, Sequences, FiniteSets, TLC

VARIABLES
    \* ---- GeminiMatcher.match_resume_to_jobs ----
    m_pc,          \* "ready" before the call, "done" after it returned
    resume_data,   \* the resume profile passed in (its 'skills' list)
    jobs,          \* the job list passed in
    response,      \* what model.generate_content did for this call
    matches,       \* the list match_resume_to_jobs returned
    returned_by,   \* which return statement produced it
    ai_calls,      \* history: the calls of model.generate_content so far
    \* ---- RealJobFetcher (configuration read in __init__) ----
    serpapi_key,     \* TRUE when SERPAPI_API_KEY is set
    rapidapi_key,    \* TRUE when RAPIDAPI_KEY is set
    adzuna_app_id,   \* TRUE when ADZUNA_APP_ID is set
    adzuna_app_key,  \* TRUE when ADZUNA_APP_KEY is set
    \* ---- RealJobFetcher.fetch_jobs ----
    f_pc,          \* "loop": at the head of the provider loop;
                   \* "provider": inside a fetch function; "done": returned
    fetch_skills,  \* the resume_skills fetch_jobs was given
    limit,         \* the requested number of jobs
    job_titles,    \* the titles derived from the resume skills
    api_idx,       \* position in apis_to_try (1..4)
    title_idx,     \* position in job_titles inside a fetch function
    all_jobs,      \* jobs collected so far by fetch_jobs
    cur_jobs,      \* the running fetch function's local list "jobs"
    fetched,       \* the list fetch_jobs returned
    provider_calls,\* history: the fetch functions called, in order
    requests,      \* history: the network requests issued, in order
    last_call,     \* history: the latest request and how it ended
    received,      \* history: ids of all listings normalized so far
    \* ---- api.match_resume (POST /match-resume) ----
    gemini_api_key,\* TRUE when GEMINI_API_KEY is set
    imports_ok,    \* TRUE when the rag_engine modules can be imported
    a_pc,          \* "received", "saved", "cleanup" (the finally block), "done"
    upload,        \* the uploaded file: extension, size, readability, content
    tmp_file,      \* "none", "exists" or "deleted": the temporary copy
    http_response, \* what the handler answers
    \* ---- ResumeParser._extract_experience ----
    e_pc,          \* "ready" before the call, "done" after
    resume_text,   \* the resume text, as tokens separated by optional blanks
    experience_years,
    \* ---- ResumeParser._create_summary ----
    s_pc,          \* "ready" before the call, "done" after
    lines,         \* the stripped non-empty lines of the resume text
    summary        \* the summary returned

mvars == <<m_pc, resume_data, jobs, response, matches, returned_by,
           ai_calls>>

cfgvars == <<serpapi_key, rapidapi_key, adzuna_app_id, adzuna_app_key>>

fvars == <<f_pc, fetch_skills, limit, job_titles, api_idx, title_idx,
           all_jobs, cur_jobs, fetched, provider_calls, requests, last_call, received>>

avars == <<gemini_api_key, imports_ok, a_pc, upload, tmp_file, http_response>>

pvars == <<e_pc, resume_text, experience_years, s_pc, lines, summary>>

vars == <<m_pc, resume_data, jobs, response, matches, returned_by, ai_calls,
          serpapi_key, rapidapi_key, adzuna_app_id, adzuna_app_key,
          f_pc, fetch_skills, limit, job_titles, api_idx, title_idx,
          all_jobs, cur_jobs, fetched, provider_calls, requests, last_call,
          received,
          gemini_api_key, imports_ok, a_pc, upload, tmp_file, http_response,
          e_pc, resume_text, experience_years, s_pc, lines, summary>>

(***************************************************************************)
(* Bounds of the model                                                     *)
(***************************************************************************)
MaxJobs == 11          \* longest job list passed to the matcher
MaxMatches == 11       \* longest "matches" array in an AI response
MaxLimit == 2          \* largest limit passed to fetch_jobs

(***************************************************************************)
(* Generic helpers                                                         *)
(***************************************************************************)
Take(s, n) == SubSeq(s, 1, IF n < Len(s) THEN n ELSE Len(s))

\* the list of length n that repeats base cyclically
Cycle(base, n) == [i \in 1..n |-> base[((i - 1) % Len(base)) + 1]]

\* str.lower() on the skill vocabulary of the model
Lower(s) ==
    CASE s = "Python" -> "python"
      [] s = "Django" -> "django"
      [] s = "React"  -> "react"
      [] OTHER        -> s

LowerSet(list) == {Lower(list[i]) : i \in 1..Len(list)}

(***************************************************************************)
(* Inputs                                                                  *)
(***************************************************************************)
\* resume_data['skills'] values
SkillLists ==
    { <<>>, <<"python", "react">>, <<"Python", "Django">> }

\* job['requirements'] values
RequirementLists ==
    { <<>>, <<"python", "django">>, <<"Python", "Django", "React">> }

JobBases ==
    { <<r>> : r \in RequirementLists }
        \cup { <<r1, r2>> : r1 \in RequirementLists, r2 \in RequirementLists }

\* a job list: job at Python position p (0-based) is the record with id p
MkJobs(reqs) == [i \in 1..Len(reqs) |-> [id |-> i - 1, requirements |-> reqs[i]]]

JobLists == { MkJobs(Cycle(b, n)) : b \in JobBases, n \in 0..MaxJobs }

(***************************************************************************)
(* The AI service's answer                                                 *)
(***************************************************************************)
\* one element of the decoded "matches" array
JobIndexes == {-1, 0, 1, 10}
Percentages == {50, 150}
AIMatches == [job_index : JobIndexes, match_percentage : Percentages]

\* every array of at most two elements, and longer arrays that go
\* through the first two jobs again and again
AIMatchBases ==
    { <<e>> : e \in AIMatches }
        \cup { <<e1, e2>> : e1 \in AIMatches, e2 \in AIMatches }

AILongBases ==
    { <<e1, e2>> : e1 \in {e \in AIMatches : e.job_index = 0},
                   e2 \in {e \in AIMatches : e.job_index = 1} }

AIMatchLists ==
    { <<>> }
        \cup { Cycle(b, Len(b)) : b \in AIMatchBases }
        \cup { Cycle(b, n) : b \in AILongBases, n \in 3..MaxMatches }

\* response.text as a sequence of tokens: "{" and "}" are the braces,
\* "matches" is a well-formed JSON body, "prose" is any other text
UndecodableTexts ==
    { <<"prose">>,                      \* no brace at all
      <<"}", "prose", "{">>,            \* last '}' before first '{'
      <<"{", "prose", "}">>,            \* a span that is not JSON
      <<"{", "matches", "}", "prose", "}">> }   \* span runs to a stray '}'

DecodableTexts ==
    { <<"{", "matches", "}">>,
      <<"prose", "{", "matches", "}", "prose">> }

\* generate_content either raises or returns a text; "payload" is the
\* "matches" array written in the text's JSON body
Responses ==
    { [raises |-> TRUE, text |-> <<>>, payload |-> <<>>] }
        \cup { [raises |-> FALSE, text |-> t, payload |-> <<>>] :
                   t \in UndecodableTexts }
        \cup { [raises |-> FALSE, text |-> t, payload |-> p] :
                   t \in DecodableTexts, p \in AIMatchLists }

\* str.find / str.rfind, 0-based, -1 when absent
Find(text, tok) ==
    IF \E i \in 1..Len(text) : text[i] = tok
    THEN (CHOOSE i \in 1..Len(text) :
              text[i] = tok /\ \A j \in 1..(i - 1) : text[j] # tok) - 1
    ELSE -1

RFind(text, tok) ==
    IF \E i \in 1..Len(text) : text[i] = tok
    THEN (CHOOSE i \in 1..Len(text) :
              text[i] = tok /\ \A j \in (i + 1)..Len(text) : text[j] # tok) - 1
    ELSE -1

\* json.loads accepts the span exactly when it is one well-formed object
JsonLoadsOk(json_text) == json_text = <<"{", "matches", "}">>

(***************************************************************************)
(* list.sort(key = match_percentage, reverse = True): stable, descending   *)
(***************************************************************************)
\* the sort without reverse = True
RECURSIVE InsertDesc_Ascending(_, _)
InsertDesc_Ascending(x, sorted) ==
    IF sorted = <<>> THEN <<x>>
    ELSE IF Head(sorted).match_percentage <= x.match_percentage
         THEN <<Head(sorted)>> \o InsertDesc_Ascending(x, Tail(sorted))
         ELSE <<x>> \o sorted

RECURSIVE InsertDesc(_, _)
InsertDesc(x, sorted) ==
    IF sorted = <<>> THEN <<x>>
    ELSE IF Head(sorted).match_percentage >= x.match_percentage
         THEN <<Head(sorted)>> \o InsertDesc(x, Tail(sorted))
         ELSE <<x>> \o sorted

RECURSIVE SortDesc(_, _)
SortDesc(list, sorted) ==
    IF list = <<>> THEN sorted
    ELSE SortDesc(Tail(list), InsertDesc(Head(list), sorted))

TopN == 10

(***************************************************************************)
(* GeminiMatcher._fallback_matching                                        *)
(***************************************************************************)
\* the quotient taken as an integer division before the scaling
MatchPercentage_DivideFirst(matching, requirements) ==
    (Cardinality(matching) \div Cardinality(requirements)) * 100

\* int((len(matching_skills) / len(job_requirements)) * 100): the float
\* product truncated; it equals the integer quotient for every
\* denominator up to 18
MatchPercentage(matching, requirements) ==
    (Cardinality(matching) * 100) \div Cardinality(requirements)

Unbound == [bound |-> FALSE, value |-> {}]

\* one pass of "for job in jobs"; matching_skills is the function-level
\* local, unbound until the first job with requirements assigns it
RECURSIVE FallbackLoop(_, _, _, _)
FallbackLoop(resume_skills, rest, matching_skills, acc) ==
    IF rest = <<>> THEN acc
    ELSE
        LET job == Head(rest)
            job_requirements == LowerSet(job.requirements)
            local == IF job_requirements # {}
                     THEN [bound |-> TRUE,
                           value |-> resume_skills \cap job_requirements]
                     ELSE matching_skills
            match_percentage ==
                IF job_requirements # {}
                THEN MatchPercentage(local.value, job_requirements)
                ELSE 50
            job_copy ==
                [id |-> job.id,
                 requirements |-> job.requirements,
                 match_percentage |-> match_percentage,
                 matching_skills |-> IF local.bound THEN local.value ELSE {},
                 missing_skills |-> job_requirements \ resume_skills,
                 explanation |->
                     [text |-> "Basic skill match analysis.",
                      n |-> IF local.bound THEN Cardinality(local.value) ELSE 0],
                 recommendation |->
                     IF match_percentage > 60 THEN "Consider applying"
                     ELSE "Develop missing skills first"]
        IN  FallbackLoop(resume_skills, Tail(rest), local, Append(acc, job_copy))

fallback_matching(resume, job_list) ==
    Take(SortDesc(FallbackLoop(LowerSet(resume.skills), job_list, Unbound, <<>>),
                  <<>>),
         TopN)

(***************************************************************************)
(* GeminiMatcher._parse_gemini_response                                    *)
(***************************************************************************)
AIExplanation == [text |-> "Strong match due to skills alignment.", n |-> 0]

\* the loop raising on an index past the end instead of skipping the entry
RECURSIVE ParseLoop_RaiseOnPastEnd(_, _, _)
ParseLoop_RaiseOnPastEnd(rest, job_list, acc) ==
    IF rest = <<>> THEN [raised |-> FALSE, matches |-> acc]
    ELSE
        LET match == Head(rest)
            job_index == match.job_index
        IN  IF job_index >= Len(job_list) \/ job_index < 0 - Len(job_list)
            THEN [raised |-> TRUE, matches |-> <<>>]
            ELSE
                LET job == IF job_index >= 0
                           THEN job_list[job_index + 1]
                           ELSE job_list[Len(job_list) + job_index + 1]
                    merged ==
                        [id |-> job.id,
                         requirements |-> job.requirements,
                         match_percentage |-> match.match_percentage,
                         matching_skills |-> {"React"},
                         missing_skills |-> {"Docker"},
                         explanation |-> AIExplanation,
                         recommendation |-> "Apply immediately"]
                IN  ParseLoop_RaiseOnPastEnd(Tail(rest), job_list,
                                             Append(acc, merged))

\* "for match in parsed_response.get('matches', [])": an entry whose
\* job_index is not below len(jobs) is skipped, a negative job_index counts
\* from the end of the list, and one below -len(jobs) raises IndexError
RECURSIVE ParseLoop(_, _, _)
ParseLoop(rest, job_list, acc) ==
    IF rest = <<>> THEN [raised |-> FALSE, matches |-> acc]
    ELSE
        LET match == Head(rest)
            job_index == match.job_index
        IN  IF job_index < Len(job_list)
            THEN IF job_index < 0 - Len(job_list)
                 THEN [raised |-> TRUE, matches |-> <<>>]
                 ELSE
                    LET job == IF job_index >= 0
                               THEN job_list[job_index + 1]
                               ELSE job_list[Len(job_list) + job_index + 1]
                        merged ==
                            [id |-> job.id,
                             requirements |-> job.requirements,
                             match_percentage |-> match.match_percentage,
                             matching_skills |-> {"React"},
                             missing_skills |-> {"Docker"},
                             explanation |-> AIExplanation,
                             recommendation |-> "Apply immediately"]
                    IN  ParseLoop(Tail(rest), job_list, Append(acc, merged))
            ELSE ParseLoop(Tail(rest), job_list, acc)

EmptyResume == [skills |-> <<>>]

parse_gemini_response(resp, job_list) ==
    LET json_start == Find(resp.text, "{")
        json_end == RFind(resp.text, "}") + 1
        json_text == SubSeq(resp.text, json_start + 1, json_end)
        looped == ParseLoop(resp.payload, job_list, <<>>)
    IN  IF /\ json_start # -1
           /\ json_end > json_start
           /\ JsonLoadsOk(json_text)
           /\ ~looped.raised
        THEN [matches |-> Take(SortDesc(looped.matches, <<>>), TopN),
              by |-> "primary"]
        ELSE [matches |-> fallback_matching(EmptyResume, job_list),
              by |-> "parse_fallback"]

(***************************************************************************)
(* GeminiMatcher.match_resume_to_jobs                                      *)
(***************************************************************************)
\* the except branch scoring an empty profile, as the parser's fallback does
match_resume_to_jobs_EmptyProfile(resume, job_list, resp) ==
    IF resp.raises
    THEN [matches |-> fallback_matching(EmptyResume, job_list),
          by |-> "except_fallback"]
    ELSE parse_gemini_response(resp, job_list)

match_resume_to_jobs(resume, job_list, resp) ==
    IF resp.raises
    THEN [matches |-> fallback_matching(resume, job_list),
          by |-> "except_fallback"]
    ELSE parse_gemini_response(resp, job_list)

\* the request handler's variables while it is not the one running
NoResponse ==
    [status |-> 0, success |-> FALSE, payload |-> "none",
     total_jobs_analyzed |-> 0, matches |-> <<>>]

ApiIdle ==
    /\ gemini_api_key = TRUE
    /\ imports_ok = TRUE
    /\ a_pc = "idle"
    /\ upload = [extension |-> "pdf", too_large |-> FALSE,
                 readable |-> TRUE, parseable |-> TRUE]
    /\ tmp_file = "none"
    /\ http_response = NoResponse

\* the resume parser's variables while it is not the one running
ParseIdle ==
    /\ e_pc = "idle"
    /\ resume_text = <<>>
    /\ experience_years = 0
    /\ s_pc = "idle"
    /\ lines = <<>>
    /\ summary = [rule |-> "none", parts |-> <<>>, length |-> 0]

\* the aggregator's variables while only the matcher runs
FetchIdle ==
    /\ serpapi_key = FALSE
    /\ rapidapi_key = FALSE
    /\ adzuna_app_id = FALSE
    /\ adzuna_app_key = FALSE
    /\ f_pc = "idle"
    /\ fetch_skills = <<>>
    /\ limit = 0
    /\ job_titles = <<>>
    /\ api_idx = 1
    /\ title_idx = 1
    /\ all_jobs = <<>>
    /\ cur_jobs = <<>>
    /\ fetched = <<>>
    /\ provider_calls = <<>>
    /\ requests = <<>>
    /\ last_call = [api |-> "none", at |-> <<0, 0>>, kind |-> "none"]
    /\ received = {}

MatchInit ==
    /\ m_pc = "ready"
    /\ resume_data \in [skills : SkillLists]
    /\ jobs \in JobLists
    /\ response = [raises |-> FALSE, text |-> <<>>, payload |-> <<>>]
    /\ matches = <<>>
    /\ returned_by = "none"
    /\ ai_calls = 0
    /\ FetchIdle
    /\ ApiIdle
    /\ ParseIdle

\* the calls of self.model.generate_content(prompt) one call of
\* match_resume_to_jobs makes: the one in the try block, whatever it does
GenerateCalls(resp) == 1

\* the whole call, for one behaviour of the AI service
Match(resp) ==
    /\ m_pc = "ready"
    /\ LET r == match_resume_to_jobs(resume_data, jobs, resp)
       IN  /\ matches' = r.matches
           /\ returned_by' = r.by
    /\ response' = resp
    /\ ai_calls' = ai_calls + GenerateCalls(resp)
    /\ m_pc' = "done"
    /\ UNCHANGED <<resume_data, jobs>>
    /\ UNCHANGED <<cfgvars, fvars, avars, pvars>>

MatchAIRaises ==
    /\ m_pc = "ready"
    /\ \E resp \in Responses : resp.raises /\ Match(resp)

MatchAIUndecodable ==
    /\ m_pc = "ready"
    /\ \E resp \in Responses :
           ~resp.raises /\ resp.text \in UndecodableTexts /\ Match(resp)

MatchAIDecoded ==
    /\ m_pc = "ready"
    /\ \E resp \in Responses :
           ~resp.raises /\ resp.text \in DecodableTexts /\ Match(resp)

MatchNext == MatchAIRaises \/ MatchAIUndecodable \/ MatchAIDecoded

SpecMatch == MatchInit /\ [][MatchNext]_vars


(***************************************************************************)
(* RealJobFetcher: configuration and title derivation                      *)
(***************************************************************************)
\* strings that are searched with "in" are sequences of characters
LowerChar(c) ==
    CASE c = "P" -> "p"
      [] c = "J" -> "j"
      [] c = "S" -> "s"
      [] c = "R" -> "r"
      [] OTHER   -> c

LowerStr(str) == [i \in 1..Len(str) |-> LowerChar(str[i])]

\* Python's "a in b" on strings
IsSubstring(a, b) ==
    \E k \in 0..(Len(b) - Len(a)) : SubSeq(b, k + 1, k + Len(a)) = a

skill_to_job_mapping ==
    << [key |-> <<"p", "y", "t", "h", "o", "n">>,
        titles |-> {"Python Developer", "Backend Developer", "Data Scientist"}],
       [key |-> <<"j", "a", "v", "a">>,
        titles |-> {"Java Developer", "Backend Developer", "Full Stack Developer"}],
       [key |-> <<"j", "a", "v", "a", "s", "c", "r", "i", "p", "t">>,
        titles |-> {"Frontend Developer", "Full Stack Developer", "Web Developer"}],
       [key |-> <<"r", "e", "a", "c", "t">>,
        titles |-> {"React Developer", "Frontend Developer", "UI Developer"}],
       [key |-> <<"n", "o", "d", "e", ".", "j", "s">>,
        titles |-> {"Node.js Developer", "Backend Developer", "Full Stack Developer"}],
       [key |-> <<"d", "a", "t", "a", " ", "s", "c", "i", "e", "n", "c", "e">>,
        titles |-> {"Data Scientist", "Data Analyst", "ML Engineer"}],
       [key |-> <<"m", "a", "c", "h", "i", "n", "e", " ", "l", "e", "a", "r", "n", "i", "n", "g">>,
        titles |-> {"ML Engineer", "Data Scientist", "AI Engineer"}],
       [key |-> <<"d", "e", "v", "o", "p", "s">>,
        titles |-> {"DevOps Engineer", "Cloud Engineer", "SRE"}],
       [key |-> <<"a", "w", "s">>,
        titles |-> {"Cloud Engineer", "DevOps Engineer", "Solutions Architect"}] >>

DefaultTitles == {"Software Developer", "Software Engineer"}

MaxTitles == 3

\* the set job_titles built by the two loops, without the default
RelevantTitleSet_NoDefault(skills) ==
    LET found ==
            UNION { skill_to_job_mapping[m].titles :
                      m \in { n \in 1..Len(skill_to_job_mapping) :
                                \E i \in 1..Len(skills) :
                                    LET skill_lower == LowerStr(skills[i])
                                        skill_key == skill_to_job_mapping[n].key
                                    IN  \/ IsSubstring(skill_key, skill_lower)
                                        \/ IsSubstring(skill_lower, skill_key) } }
    IN  found

\* the set job_titles built by the two loops, with the default when empty
RelevantTitleSet(skills) ==
    LET found ==
            UNION { skill_to_job_mapping[m].titles :
                      m \in { n \in 1..Len(skill_to_job_mapping) :
                                \E i \in 1..Len(skills) :
                                    LET skill_lower == LowerStr(skills[i])
                                        skill_key == skill_to_job_mapping[n].key
                                    IN  \/ IsSubstring(skill_key, skill_lower)
                                        \/ IsSubstring(skill_lower, skill_key) } }
    IN  IF found = {} THEN DefaultTitles ELSE found

\* list(job_titles)[:3]: the set is listed in an arbitrary order, so every
\* duplicate-free list of the right length is a possible return value
get_relevant_job_titles(skills) ==
    LET title_set == RelevantTitleSet(skills)
        n == IF Cardinality(title_set) < MaxTitles
             THEN Cardinality(title_set) ELSE MaxTitles
    IN  { list \in [1..n -> title_set] :
            \A i \in 1..n : \A j \in 1..n : i # j => list[i] # list[j] }

\* resume skill lists handed to fetch_jobs
FetchSkillLists ==
    { <<>>, << <<"S", "q", "l">> >>, << <<"P", "y", "t", "h", "o", "n">> >> }


(***************************************************************************)
(* RealJobFetcher: the providers and their answers                         *)
(***************************************************************************)
\* apis_to_try, in order of preference
apis_to_try == <<"google_jobs", "adzuna", "jsearch", "arbeitnow">>

\* a provider that goes on without looking at its key
HasCredentials_Unchecked(api) == TRUE

\* the Adzuna guard satisfied by either one of its two settings
HasCredentials_AdzunaEither(api) ==
    CASE api = "google_jobs" -> serpapi_key
      [] api = "adzuna"      -> adzuna_app_id \/ adzuna_app_key
      [] api = "jsearch"     -> rapidapi_key
      [] api = "arbeitnow"   -> TRUE

\* the guard at the top of each fetch function
HasCredentials(api) ==
    CASE api = "google_jobs" -> serpapi_key
      [] api = "adzuna"      -> adzuna_app_id /\ adzuna_app_key
      [] api = "jsearch"     -> rapidapi_key
      [] api = "arbeitnow"   -> TRUE

\* a record of a provider's answer: ok = FALSE is a record the parse
\* function cannot normalize (it returns None); description is the set of
\* level keywords the description text contains
RawJob(ok, description) == [ok |-> ok, description |-> description]

Bodies ==
    { << RawJob(FALSE, {}), RawJob(TRUE, {"senior"}) >>,
      << RawJob(TRUE, {"fresher", "lead"}), RawJob(TRUE, {}) >> }

\* how one requests.get can end
Outcomes ==
    { [kind |-> "exception", body |-> <<>>],   \* timeout, connection error
      [kind |-> "status",    body |-> <<>>],   \* status_code != 200
      [kind |-> "no_key",    body |-> <<>>] }  \* 200, results key missing
        \cup { [kind |-> "ok", body |-> b] : b \in Bodies }

Failed(kind) == kind \in {"exception", "status"}

\* the parse function on the records of a body, in order; a record that
\* parses to None is dropped; the id tells where the listing came from
RECURSIVE ParseAll(_, _, _, _)
ParseAll(body, api_no, title_no, pos) ==
    IF body = <<>> THEN <<>>
    ELSE LET rest == ParseAll(Tail(body), api_no, title_no, pos + 1)
         IN  IF Head(body).ok
             THEN << [id |-> <<api_no, title_no, pos>>,
                      source |-> apis_to_try[api_no],
                      description |-> Head(body).description] >> \o rest
             ELSE rest

\* the answer parsed without the slice
Contribution_NoSlice(outcome, api_no, title_no, cap) ==
    IF outcome.kind = "ok"
    THEN ParseAll(outcome.body, api_no, title_no, 1)
    ELSE <<>>

\* the listings one request adds to the fetch function's list; cap is the
\* slice applied to the records before parsing (-1: no slice)
Contribution(outcome, api_no, title_no, cap) ==
    IF outcome.kind = "ok"
    THEN ParseAll(IF cap >= 0 THEN Take(outcome.body, cap) ELSE outcome.body,
                  api_no, title_no, 1)
    ELSE <<>>

Min(a, b) == IF a < b THEN a ELSE b

PageSize == 10

(***************************************************************************)
(* RealJobFetcher._format_jobs                                             *)
(***************************************************************************)
\* the senior keywords tested before the fresher keywords
determine_experience_level_SeniorFirst(description) ==
    IF description \cap {"senior", "lead", "5+ years"} # {}
    THEN "Senior"
    ELSE IF description \cap {"fresher", "entry level", "0-1 year"} # {}
         THEN "Fresher"
         ELSE "Mid-level"

determine_experience_level(description) ==
    IF description \cap {"fresher", "entry level", "0-1 year"} # {}
    THEN "Fresher"
    ELSE IF description \cap {"senior", "lead", "5+ years"} # {}
         THEN "Senior"
         ELSE "Mid-level"

market_insights ==
    [job_market |-> "India", currency |-> "INR",
     notice_period |-> "30-60 days typical", visa_required |-> FALSE]

format_jobs(job_list) ==
    [i \in 1..Len(job_list) |->
        [id |-> job_list[i].id,
         source |-> job_list[i].source,
         description |-> job_list[i].description,
         experience_level |->
             determine_experience_level(job_list[i].description),
         market_insights |-> market_insights]]

(***************************************************************************)
(* RealJobFetcher.fetch_jobs, one step per provider call and per request   *)
(***************************************************************************)
MatchIdle ==
    /\ m_pc = "idle"
    /\ resume_data = [skills |-> <<>>]
    /\ jobs = <<>>
    /\ response = [raises |-> FALSE, text |-> <<>>, payload |-> <<>>]
    /\ matches = <<>>
    /\ returned_by = "none"
    /\ ai_calls = 0

FetchInit ==
    /\ MatchIdle
    /\ ApiIdle
    /\ ParseIdle
    /\ serpapi_key \in BOOLEAN
    /\ rapidapi_key \in BOOLEAN
    /\ adzuna_app_id \in BOOLEAN
    /\ adzuna_app_key \in BOOLEAN
    /\ f_pc = "loop"
    /\ limit \in 0..MaxLimit
    /\ fetch_skills \in FetchSkillLists
    /\ job_titles \in get_relevant_job_titles(fetch_skills)
    /\ api_idx = 1
    /\ title_idx = 1
    /\ all_jobs = <<>>
    /\ cur_jobs = <<>>
    /\ fetched = <<>>
    /\ provider_calls = <<>>
    /\ requests = <<>>
    /\ last_call = [api |-> "none", at |-> <<0, 0>>, kind |-> "none"]
    /\ received = {}

\* the break taken only once the limit is exceeded
LimitReached_Exceeded(collected, wanted) == collected > wanted

\* "if len(all_jobs) >= limit: break"
LimitReached(collected, wanted) == collected >= wanted

\* fetch_function(job_titles, limit - len(all_jobs)) is entered
CallProvider ==
    /\ f_pc = "loop"
    /\ api_idx <= Len(apis_to_try)
    /\ ~LimitReached(Len(all_jobs), limit)
    /\ f_pc' = "provider"
    /\ title_idx' = 1
    /\ cur_jobs' = <<>>
    /\ provider_calls' =
           Append(provider_calls,
                  [api |-> apis_to_try[api_idx],
                   collected |-> Len(all_jobs),
                   remaining |-> limit - Len(all_jobs)])
    /\ UNCHANGED <<fetch_skills, limit, job_titles, api_idx, all_jobs, fetched,
                   requests, last_call, received>>
    /\ UNCHANGED <<mvars, cfgvars, avars, pvars>>

\* the collected list overwritten instead of extended
ReturnToLoop_Assign(returned_jobs) ==
    /\ all_jobs' = returned_jobs
    /\ api_idx' = api_idx + 1
    /\ f_pc' = "loop"
    /\ title_idx' = 1
    /\ cur_jobs' = <<>>

\* the fetch function returns: "if jobs: all_jobs.extend(jobs)"
ReturnToLoop(returned_jobs) ==
    /\ all_jobs' = all_jobs \o returned_jobs
    /\ api_idx' = api_idx + 1
    /\ f_pc' = "loop"
    /\ title_idx' = 1
    /\ cur_jobs' = <<>>

\* a fetch function finds its key missing and returns []
MissingCredentials ==
    /\ f_pc = "provider"
    /\ ~HasCredentials(apis_to_try[api_idx])
    /\ ReturnToLoop(<<>>)
    /\ UNCHANGED <<fetch_skills, limit, job_titles, fetched, provider_calls,
                   requests, last_call, received>>
    /\ UNCHANGED <<mvars, cfgvars, avars, pvars>>

\* the title loop left at the first request that fails
MoreTitles_StopOnFailure(kind, idx) ==
    ~Failed(kind) /\ idx < Len(job_titles)

\* "for title in job_titles" has a further title; a request that raised or
\* was refused does not end the loop ("except ...: continue")
MoreTitles(kind, idx) == idx < Len(job_titles)

\* a request that failed issued again for the same title
NextTitle_RetryFailed(kind, idx) == IF Failed(kind) THEN idx ELSE idx + 1

\* the for loop moves on to the next title, whatever the request did
NextTitle(kind, idx) == idx + 1

\* one iteration of "for title in job_titles" of a keyed provider: the
\* request, the parse of its answer, and the return after the last title
TitleRequest(api, outcome, num, cap) ==
    /\ f_pc = "provider"
    /\ apis_to_try[api_idx] = api
    /\ HasCredentials(api)
    /\ LET got == Contribution(outcome, api_idx, title_idx, cap)
       IN  /\ requests' = Append(requests,
                                 [api |-> api, title |-> job_titles[title_idx],
                                  num |-> num])
           /\ last_call' = [api |-> api, at |-> <<api_idx, title_idx>>,
                            kind |-> outcome.kind]
           /\ received' = received \cup {got[i].id : i \in 1..Len(got)}
           /\ IF MoreTitles(outcome.kind, title_idx)
              THEN /\ cur_jobs' = cur_jobs \o got
                   /\ title_idx' = NextTitle(outcome.kind, title_idx)
                   /\ UNCHANGED <<all_jobs, api_idx, f_pc>>
              ELSE ReturnToLoop(cur_jobs \o got)
    /\ UNCHANGED <<fetch_skills, limit, job_titles, fetched, provider_calls>>
    /\ UNCHANGED <<mvars, cfgvars, avars, pvars>>

RemainingLimit == limit - Len(all_jobs)

\* _fetch_google_jobs: "num" is only a request parameter
GoogleRequest ==
    /\ f_pc = "provider"
    /\ \E outcome \in Outcomes :
           TitleRequest("google_jobs", outcome,
                        Min(RemainingLimit \div Len(job_titles), PageSize), -1)

\* _fetch_adzuna_jobs: "results_per_page" is only a request parameter
AdzunaRequest ==
    /\ f_pc = "provider"
    /\ \E outcome \in Outcomes :
           TitleRequest("adzuna", outcome,
                        Min(RemainingLimit \div Len(job_titles), PageSize), -1)

\* _fetch_jsearch_jobs: data['data'][:limit // len(job_titles)]
JSearchRequest ==
    /\ f_pc = "provider"
    /\ \E outcome \in Outcomes :
           TitleRequest("jsearch", outcome,
                        RemainingLimit \div Len(job_titles),
                        RemainingLimit \div Len(job_titles))

\* _fetch_arbeitnow_jobs: a single request, data['data'][:limit]
ArbeitnowRequest ==
    /\ f_pc = "provider"
    /\ apis_to_try[api_idx] = "arbeitnow"
    /\ \E outcome \in Outcomes :
           LET got == Contribution(outcome, api_idx, 1, RemainingLimit)
           IN  /\ requests' = Append(requests,
                                     [api |-> "arbeitnow", title |-> "",
                                      num |-> RemainingLimit])
               /\ last_call' = [api |-> "arbeitnow", at |-> <<api_idx, 1>>,
                                kind |-> outcome.kind]
               /\ received' = received \cup {got[i].id : i \in 1..Len(got)}
               /\ ReturnToLoop(got)
    /\ UNCHANGED <<fetch_skills, limit, job_titles, fetched, provider_calls>>
    /\ UNCHANGED <<mvars, cfgvars, avars, pvars>>

\* the loop ends (break, or no provider left): format, truncate, return
FetchReturn ==
    /\ f_pc = "loop"
    /\ \/ api_idx > Len(apis_to_try)
       \/ LimitReached(Len(all_jobs), limit)
    /\ fetched' = Take(format_jobs(all_jobs), limit)
    /\ f_pc' = "done"
    /\ UNCHANGED <<fetch_skills, limit, job_titles, api_idx, title_idx, all_jobs,
                   cur_jobs, provider_calls, requests, last_call, received>>
    /\ UNCHANGED <<mvars, cfgvars, avars, pvars>>

FetchNext ==
    \/ CallProvider
    \/ MissingCredentials
    \/ GoogleRequest
    \/ AdzunaRequest
    \/ JSearchRequest
    \/ ArbeitnowRequest
    \/ FetchReturn

SpecFetch == FetchInit /\ [][FetchNext]_vars

(***************************************************************************)
(* The outbound calls of one request: a run of fetch_jobs or a run of      *)
(* match_resume_to_jobs                                                    *)
(***************************************************************************)
CallsInit == MatchInit \/ FetchInit

CallsNext == MatchNext \/ FetchNext

SpecCalls == CallsInit /\ [][CallsNext]_vars

(***************************************************************************)
(* RealJobFetcher._get_relevant_job_titles as a step of its own            *)
(***************************************************************************)
\* resume skills: the empty string, a single letter, skills that hold a
\* key, a skill that is held by a key, and skills no key matches
TitleSkills ==
    { <<>>,
      <<"a">>,
      <<"P", "y", "t", "h", "o", "n">>,
      <<"J", "a", "v", "a", "S", "c", "r", "i", "p", "t">>,
      <<"J", "a", "v", "a">>,
      <<"j", "s">>,
      <<"S", "q", "l">>,
      <<"R", "e", "a", "c", "t", " ", "J", "S">> }

TitleSkillLists ==
    {<<>>} \cup { <<a>> : a \in TitleSkills }
           \cup { <<a, b>> : a \in TitleSkills, b \in TitleSkills }

TitlesInit ==
    /\ MatchIdle
    /\ ApiIdle
    /\ ParseIdle
    /\ serpapi_key = FALSE
    /\ rapidapi_key = FALSE
    /\ adzuna_app_id = FALSE
    /\ adzuna_app_key = FALSE
    /\ f_pc = "start"
    /\ fetch_skills \in TitleSkillLists
    /\ limit = 0
    /\ job_titles = <<>>
    /\ api_idx = 1
    /\ title_idx = 1
    /\ all_jobs = <<>>
    /\ cur_jobs = <<>>
    /\ fetched = <<>>
    /\ provider_calls = <<>>
    /\ requests = <<>>
    /\ last_call = [api |-> "none", at |-> <<0, 0>>, kind |-> "none"]
    /\ received = {}

\* job_titles = self._get_relevant_job_titles(resume_skills or [])
GetRelevantJobTitles ==
    /\ f_pc = "start"
    /\ job_titles' \in get_relevant_job_titles(fetch_skills)
    /\ f_pc' = "titled"
    /\ UNCHANGED <<fetch_skills, limit, api_idx, title_idx, all_jobs, cur_jobs,
                   fetched, provider_calls, requests, last_call, received>>
    /\ UNCHANGED <<mvars, cfgvars, avars, pvars>>

TitlesNext == GetRelevantJobTitles

SpecTitles == TitlesInit /\ [][TitlesNext]_vars

(***************************************************************************)
(* api.match_resume: the POST /match-resume handler                        *)
(***************************************************************************)
Extensions == {"pdf", "docx", "doc", "txt"}

\* file.filename.lower().endswith(('.pdf', '.docx', '.doc'))
SupportedExtension(ext) == ext \in {"pdf", "docx", "doc"}

Uploads ==
    [extension : Extensions, too_large : BOOLEAN,
     readable : BOOLEAN, parseable : BOOLEAN]

\* the two HTTPException(status_code=400) of the validation
ClientErrorResponse ==
    [status |-> 400, success |-> FALSE, payload |-> "error",
     total_jobs_analyzed |-> 0, matches |-> <<>>]

\* the outermost except Exception: HTTPException(status_code=500)
InternalErrorResponse_Masked ==
    [status |-> 200, success |-> TRUE, payload |-> "mock_fallback",
     total_jobs_analyzed |-> 3, matches |-> <<[match_percentage |-> 85]>>]

InternalErrorResponse ==
    [status |-> 500, success |-> FALSE, payload |-> "error",
     total_jobs_analyzed |-> 0, matches |-> <<>>]

\* except ImportError: three fixed example matches
ImportErrorResponse ==
    [status |-> 200, success |-> TRUE, payload |-> "mock_import",
     total_jobs_analyzed |-> 5,
     matches |-> <<[match_percentage |-> 92], [match_percentage |-> 87],
                   [match_percentage |-> 83]>>]

\* the inner except Exception: one fixed example match
ProcessingErrorResponse_ClientError ==
    [status |-> 400, success |-> FALSE, payload |-> "error",
     total_jobs_analyzed |-> 0, matches |-> <<>>]

ProcessingErrorResponse ==
    [status |-> 200, success |-> TRUE, payload |-> "mock_fallback",
     total_jobs_analyzed |-> 3, matches |-> <<[match_percentage |-> 85]>>]

\* the response of the path on which nothing raised
SuccessResponse(job_list, ranked) ==
    [status |-> 200, success |-> TRUE, payload |-> "real",
     total_jobs_analyzed |-> Len(job_list), matches |-> Take(ranked, TopN)]

ApiInit ==
    /\ MatchIdle
    /\ FetchIdle
    /\ ParseIdle
    /\ gemini_api_key \in BOOLEAN
    /\ imports_ok \in BOOLEAN
    /\ a_pc = "received"
    /\ upload \in Uploads
    /\ tmp_file = "none"
    /\ http_response = NoResponse

\* "Validate file type": nothing has been written yet
RejectExtension ==
    /\ a_pc = "received"
    /\ ~SupportedExtension(upload.extension)
    /\ http_response' = ClientErrorResponse
    /\ a_pc' = "done"
    /\ UNCHANGED <<gemini_api_key, imports_ok, upload, tmp_file>>
    /\ UNCHANGED <<mvars, cfgvars, fvars, pvars>>

\* "Check file size"
RejectSize ==
    /\ a_pc = "received"
    /\ SupportedExtension(upload.extension)
    /\ upload.too_large
    /\ http_response' = ClientErrorResponse
    /\ a_pc' = "done"
    /\ UNCHANGED <<gemini_api_key, imports_ok, upload, tmp_file>>
    /\ UNCHANGED <<mvars, cfgvars, fvars, pvars>>

\* "Save file temporarily": NamedTemporaryFile(delete=False) creates the
\* file, then the upload is read and written into it
SaveUpload ==
    /\ a_pc = "received"
    /\ SupportedExtension(upload.extension)
    /\ ~upload.too_large
    /\ upload.readable
    /\ tmp_file' = "exists"
    /\ a_pc' = "saved"
    /\ UNCHANGED <<gemini_api_key, imports_ok, upload, http_response>>
    /\ UNCHANGED <<mvars, cfgvars, fvars, pvars>>

\* file.read() or tmp_file.write() raises inside the with block: the file
\* is closed but kept (delete=False), tmp_file_path was never assigned and
\* the inner try/finally was never entered; the outermost handler answers
SaveUploadRaises ==
    /\ a_pc = "received"
    /\ SupportedExtension(upload.extension)
    /\ ~upload.too_large
    /\ ~upload.readable
    /\ tmp_file' = "exists"
    /\ http_response' = InternalErrorResponse
    /\ a_pc' = "done"
    /\ UNCHANGED <<gemini_api_key, imports_ok, upload>>
    /\ UNCHANGED <<mvars, cfgvars, fvars, pvars>>

\* one of the three lazy imports raises ImportError
ImportRaises ==
    /\ a_pc = "saved"
    /\ ~imports_ok
    /\ http_response' = ImportErrorResponse
    /\ a_pc' = "cleanup"
    /\ UNCHANGED <<gemini_api_key, imports_ok, upload, tmp_file>>
    /\ UNCHANGED <<mvars, cfgvars, fvars, pvars>>

\* "Initialize services": GeminiMatcher() raises ValueError when
\* GEMINI_API_KEY is not set, before the resume is parsed
InitServicesRaises ==
    /\ a_pc = "saved"
    /\ imports_ok
    /\ ~gemini_api_key
    /\ http_response' = ProcessingErrorResponse
    /\ a_pc' = "cleanup"
    /\ UNCHANGED <<gemini_api_key, imports_ok, upload, tmp_file>>
    /\ UNCHANGED <<mvars, cfgvars, fvars, pvars>>

\* "Parse resume": extract_text raises "Error extracting text: ..."
ExtractTextRaises ==
    /\ a_pc = "saved"
    /\ imports_ok
    /\ gemini_api_key
    /\ ~upload.parseable
    /\ http_response' = ProcessingErrorResponse
    /\ a_pc' = "cleanup"
    /\ UNCHANGED <<gemini_api_key, imports_ok, upload, tmp_file>>
    /\ UNCHANGED <<mvars, cfgvars, fvars, pvars>>

\* parse, fetch, match and "Prepare response"
Process ==
    /\ a_pc = "saved"
    /\ imports_ok
    /\ gemini_api_key
    /\ upload.parseable
    /\ \E resume \in [skills : SkillLists], job_list \in JobLists,
          resp \in Responses :
           LET r == match_resume_to_jobs(resume, job_list, resp)
           IN  /\ resume_data' = resume
               /\ jobs' = job_list
               /\ response' = resp
               /\ matches' = r.matches
               /\ returned_by' = r.by
               /\ ai_calls' = ai_calls + GenerateCalls(resp)
               /\ http_response' = SuccessResponse(job_list, r.matches)
    /\ a_pc' = "cleanup"
    /\ UNCHANGED <<m_pc, gemini_api_key, imports_ok, upload, tmp_file>>
    /\ UNCHANGED <<cfgvars, fvars, pvars>>

\* finally: "Clean up temporary file"
Cleanup ==
    /\ a_pc = "cleanup"
    /\ tmp_file' = IF tmp_file = "exists" THEN "deleted" ELSE tmp_file
    /\ a_pc' = "done"
    /\ UNCHANGED <<gemini_api_key, imports_ok, upload, http_response>>
    /\ UNCHANGED <<mvars, cfgvars, fvars, pvars>>

ApiNext ==
    \/ RejectExtension
    \/ RejectSize
    \/ SaveUpload
    \/ SaveUploadRaises
    \/ ImportRaises
    \/ InitServicesRaises
    \/ ExtractTextRaises
    \/ Process
    \/ Cleanup

SpecApi == ApiInit /\ [][ApiNext]_vars

(***************************************************************************)
(* ResumeParser._extract_experience                                        *)
(*                                                                         *)
(* The text is a sequence of tokens: a run of digits [w |-> "#", n |-> k]  *)
(* or a word [w |-> "years", n |-> 0].  The word "+" is a plus sign       *)
(* written directly after a run of digits; between any other two tokens    *)
(* there may be blanks, which every pattern allows with \s*.               *)
(***************************************************************************)
Num(k) == [w |-> "#", n |-> k]
Word(x) == [w |-> x, n |-> 0]

RECURSIVE Words(_)
Words(ws) ==
    IF ws = <<>> THEN <<>> ELSE <<Word(Head(ws))>> \o Words(Tail(ws))

\* text_lower = text.lower() in _parse_resume_content, word by word
LowerWord(x) ==
    CASE x = "Years"      -> "years"
      [] x = "YEARS"      -> "years"
      [] x = "Experience" -> "experience"
      [] x = "Over"       -> "over"
      [] OTHER            -> x

Lowered(text) == [i \in 1..Len(text) |-> [w |-> LowerWord(text[i].w), n |-> text[i].n]]

\* the items of a pattern: the capture group (\d+), a required word out of
\* a set, an optional word, a repeated optional word
Digits == [kind |-> "num", words |-> {}]
One(ws) == [kind |-> "one", words |-> ws]
Opt(ws) == [kind |-> "opt", words |-> ws]
Star(ws) == [kind |-> "star", words |-> ws]

Years == One({"year", "years"})
Yrs == One({"yr", "yrs"})

experience_patterns ==
    << <<Digits, Opt({"+"}), Years, Opt({"of"}), One({"experience"})>>,
       <<Digits, Opt({"+"}), Yrs, Opt({"of"}), One({"experience"})>>,
       <<One({"experience"}), Star({":"}), Digits, Opt({"+"}), Years>>,
       <<Digits, Opt({"+"}), Years, One({"in"}),
         One({"software", "programming", "development"})>>,
       <<One({"over"}), Digits, Years>>,
       <<One({"more"}), One({"than"}), Digits, Years>> >>

NoMatch == [ok |-> FALSE, end |-> 0, cap |-> 0]

\* re.match of the items k.. of a pattern at token i: greedy, giving back
\* an optional word when the rest does not match
RECURSIVE MatchFrom(_, _, _, _, _)
MatchFrom(pat, k, text, i, cap) ==
    IF k > Len(pat) THEN [ok |-> TRUE, end |-> i, cap |-> cap]
    ELSE LET item == pat[k]
             here == i <= Len(text)
             skip == MatchFrom(pat, k + 1, text, i, cap)
         IN  CASE item.kind = "num" ->
                      IF here /\ text[i].w = "#"
                      THEN MatchFrom(pat, k + 1, text, i + 1, text[i].n)
                      ELSE NoMatch
               [] item.kind = "one" ->
                      IF here /\ text[i].w \in item.words
                      THEN MatchFrom(pat, k + 1, text, i + 1, cap)
                      ELSE NoMatch
               [] item.kind = "opt" ->
                      IF here /\ text[i].w \in item.words
                      THEN LET take == MatchFrom(pat, k + 1, text, i + 1, cap)
                           IN  IF take.ok THEN take ELSE skip
                      ELSE skip
               [] OTHER ->
                      IF here /\ text[i].w \in item.words
                      THEN LET take == MatchFrom(pat, k, text, i + 1, cap)
                           IN  IF take.ok THEN take ELSE skip
                      ELSE skip

\* re.findall(pattern, text): the captures of the non-overlapping matches,
\* scanning from the left
RECURSIVE findall(_, _, _)
findall(pat, text, i) ==
    IF i > Len(text) THEN <<>>
    ELSE LET r == MatchFrom(pat, 1, text, i, 0)
         IN  IF r.ok THEN <<r.cap>> \o findall(pat, text, r.end)
             ELSE findall(pat, text, i + 1)

\* the list "years" after the loop over the patterns
RECURSIVE YearsFound(_, _)
YearsFound(text, k) ==
    IF k > Len(experience_patterns) THEN <<>>
    ELSE findall(experience_patterns[k], text, 1) \o YearsFound(text, k + 1)

RECURSIVE MaxOf(_)
MaxOf(xs) ==
    IF Len(xs) = 1 THEN xs[1]
    ELSE LET m == MaxOf(Tail(xs)) IN IF xs[1] >= m THEN xs[1] ELSE m

extract_experience_First(text_lower) ==
    LET years == YearsFound(text_lower, 1)
    IN  IF years # <<>> THEN years[1] ELSE 0

extract_experience(text_lower) ==
    LET years == YearsFound(text_lower, 1)
    IN  IF years # <<>> THEN MaxOf(years) ELSE 0

\* pieces of resume text that the patterns do or do not match
Phrases ==
    { <<>>,
      <<Num(5)>> \o Words(<<"years", "of", "experience">>),
      <<Num(3)>> \o Words(<<"years", "of", "experience">>),
      <<Num(3)>> \o Words(<<"+", "Years", "Experience">>),
      <<Num(10)>> \o Words(<<"year", "experience">>),
      <<Num(5)>> \o Words(<<"yrs", "of", "experience">>),
      <<Num(10), Word("+"), Word("yr"), Word("experience")>>,
      Words(<<"Experience", ":">>) \o <<Num(3)>> \o Words(<<"+", "years">>),
      Words(<<"experience", ":", ":">>) \o <<Num(10)>> \o Words(<<"year">>),
      <<Word("experience"), Num(5), Word("years")>>,
      <<Num(5)>> \o Words(<<"years", "in", "software">>),
      <<Num(10)>> \o Words(<<"+", "YEARS", "in", "development">>),
      <<Word("over"), Num(10), Word("years")>>,
      <<Word("Over"), Num(3), Word("year")>>,
      Words(<<"more", "than">>) \o <<Num(5), Word("years")>>,
      \* near misses
      <<Num(10)>> \o Words(<<"months", "of", "experience">>),
      <<Num(10)>> \o Words(<<"years", "in", "sales">>),
      <<Num(10)>> \o Words(<<"years", "of">>),
      Words(<<"over", "the">>) \o <<Num(10), Word("years")>>,
      <<Word("more"), Num(10), Word("years")>>,
      <<Word("born"), Num(10)>>,
      <<Word("over"), Num(10), Word("+"), Word("years")>>,
      <<Word("experience")>> }

Separators == { <<>>, <<Word(",")>> }

ResumeTexts == { p \o sep \o q : p \in Phrases, sep \in Separators, q \in Phrases }

ExperienceInit ==
    /\ MatchIdle
    /\ FetchIdle
    /\ ApiIdle
    /\ e_pc = "ready"
    /\ resume_text \in ResumeTexts
    /\ experience_years = 0
    /\ s_pc = "idle"
    /\ lines = <<>>
    /\ summary = [rule |-> "none", parts |-> <<>>, length |-> 0]

ExtractExperience ==
    /\ e_pc = "ready"
    /\ experience_years' = extract_experience(Lowered(resume_text))
    /\ e_pc' = "done"
    /\ UNCHANGED <<resume_text, s_pc, lines, summary>>
    /\ UNCHANGED <<mvars, cfgvars, fvars, avars>>

ExperienceNext == ExtractExperience

SpecExperience == ExperienceInit /\ [][ExperienceNext]_vars

(***************************************************************************)
(* ResumeParser._create_summary                                            *)
(*                                                                         *)
(* A stripped non-empty line is [indicator, upper, len]: whether its       *)
(* lower-cased form contains one of 'summary', 'objective', 'profile',     *)
(* 'about', whether str.isupper() holds for it, and its length.  A summary *)
(* is the rule that built it, the positions of the lines it joins and its  *)
(* length after strip() and [:500].                                        *)
(***************************************************************************)
MaxFill == 10

SectionSpan == 5          \* range(i + 1, min(i + 6, len(lines)))
FirstWindow == 10         \* lines[:10]
MeaningfulLen == 20       \* len(line) > 20
MeaningfulTake == 3       \* meaningful_lines[:3]
SummaryLimit == 500       \* [:500]

LineLens == {20, 21, 300}

Lines == [indicator : BOOLEAN, upper : BOOLEAN, len : LineLens]

FillLines ==
    { [indicator |-> FALSE, upper |-> FALSE, len |-> 21],
      [indicator |-> FALSE, upper |-> TRUE, len |-> 21],
      [indicator |-> FALSE, upper |-> FALSE, len |-> 20] }

Heads == {<<>>} \cup { <<l>> : l \in Lines }

Tails == Heads \cup { <<l, k>> : l \in Lines, k \in Lines }

Fill(l, n) == [i \in 1..n |-> l]

LineLists ==
    { h \o Fill(l, n) \o t :
          h \in Heads, l \in FillLines, n \in 0..MaxFill, t \in Tails }

\* the positions in lo..hi that belong to keep, in order
RECURSIVE Select(_, _, _)
Select(lo, hi, keep) ==
    IF lo > hi THEN <<>>
    ELSE (IF lo \in keep THEN <<lo>> ELSE <<>>) \o Select(lo + 1, hi, keep)

\* the position of the first line that holds an indicator, 0 without one
RECURSIVE FirstIndicator(_, _)
FirstIndicator(ls, i) ==
    IF i > Len(ls) THEN 0
    ELSE IF ls[i].indicator THEN i
    ELSE FirstIndicator(ls, i + 1)

RECURSIVE TotalLen(_, _)
TotalLen(ls, parts) ==
    IF parts = <<>> THEN 0
    ELSE ls[Head(parts)].len + TotalLen(ls, Tail(parts))

\* the length of the parts joined by single blanks, after strip() and [:500]
JoinedLen(ls, parts) ==
    IF parts = <<>> THEN 0
    ELSE Min(TotalLen(ls, parts) + Len(parts) - 1, SummaryLimit)

NotUpper(ls) == { j \in 1..Len(ls) : ~ls[j].upper }

Meaningful(ls) ==
    { j \in 1..Len(ls) : ls[j].len > MeaningfulLen /\ ~ls[j].upper }

create_summary(ls) ==
    LET i == FirstIndicator(ls, 1)
        section ==
            IF i = 0 THEN <<>>
            ELSE Select(i + 1, Min(i + SectionSpan, Len(ls)), NotUpper(ls))
        meaningful_lines ==
            Select(1, Min(FirstWindow, Len(ls)), Meaningful(ls))
        first == Take(meaningful_lines, MeaningfulTake)
    IN  IF section # <<>>
        THEN [rule |-> "section", parts |-> section,
              length |-> JoinedLen(ls, section)]
        ELSE [rule |-> "first_lines", parts |-> first,
              length |-> JoinedLen(ls, first)]

SummaryInit ==
    /\ MatchIdle
    /\ FetchIdle
    /\ ApiIdle
    /\ e_pc = "idle"
    /\ resume_text = <<>>
    /\ experience_years = 0
    /\ s_pc = "ready"
    /\ lines \in LineLists
    /\ summary = [rule |-> "none", parts |-> <<>>, length |-> 0]

CreateSummary ==
    /\ s_pc = "ready"
    /\ summary' = create_summary(lines)
    /\ s_pc' = "done"
    /\ UNCHANGED <<e_pc, resume_text, experience_years, lines>>
    /\ UNCHANGED <<mvars, cfgvars, fvars, avars>>

SummaryNext == CreateSummary

SpecSummary == SummaryInit /\ [][SummaryNext]_vars

(***************************************************************************)
(* Properties of the Match Ranker (checked under SpecMatch)                *)
(***************************************************************************)
Returned == m_pc = "done"

IsFallbackEntry(e) == e.explanation.text = "Basic skill match analysis."
IsAIEntry(e) == e.explanation = AIExplanation

\* the resume the fallback scorer was handed on the path that returned
ScorerResume ==
    IF returned_by = "except_fallback" THEN resume_data ELSE EmptyResume

\* C1: whatever the resume, the job list and the AI outcome, the returned
\* list is sorted non-increasing by match_percentage and has at most 10
\* entries.
C1_SortedAtMostTen ==
    Returned =>
        /\ Len(matches) <= 10
        /\ \A i \in 1..(Len(matches) - 1) :
               matches[i].match_percentage >= matches[i + 1].match_percentage

\* C1 witness: an AI answer with more than 10 usable matches of different
\* scores was cut to 10 and ranked.
C1_Witness ==
    /\ Returned
    /\ returned_by = "primary"
    /\ Len(response.payload) > 10
    /\ Len(matches) = 10
    /\ matches[1].match_percentage > matches[10].match_percentage

\* C2: when generate_content raises, the returned list is exactly the
\* fallback scorer's list for the same resume and jobs, and none of its
\* entries is AI-scored.
C2_RaiseGivesFallback ==
    (Returned /\ response.raises) =>
        /\ matches = fallback_matching(resume_data, jobs)
        /\ \A i \in 1..Len(matches) :
               IsFallbackEntry(matches[i]) /\ ~IsAIEntry(matches[i])

\* C2 witness: the AI call raised and the fallback found a full skill match.
C2_Witness ==
    /\ Returned
    /\ response.raises
    /\ returned_by = "except_fallback"
    /\ Len(matches) > 0
    /\ matches[1].match_percentage = 100

\* C3 (as claimed): when the AI text cannot be decoded, the returned list is
\* the fallback scorer's list for the request's own resume skills and jobs.
C3_UndecodableUsesResume ==
    (Returned /\ ~response.raises /\ response.text \in UndecodableTexts) =>
        matches = fallback_matching(resume_data, jobs)

\* jobs[job_index] would raise "list index out of range"
OutOfRange(job_index) ==
    job_index >= Len(jobs) \/ job_index < 0 - Len(jobs)

\* C4 (as claimed): a decoded match with an out-of-range job_index sends the
\* whole request to the fallback path, with no AI-scored entry returned.
C4_OutOfRangeFallsBack ==
    (/\ Returned
     /\ ~response.raises
     /\ response.text \in DecodableTexts
     /\ \E k \in 1..Len(response.payload) :
            OutOfRange(response.payload[k].job_index)) =>
        /\ matches = fallback_matching(resume_data, jobs)
        /\ \A i \in 1..Len(matches) : ~IsAIEntry(matches[i])

\* the decoded matches that name a position below len(jobs)
RECURSIVE Usable(_)
Usable(payload) ==
    IF payload = <<>> THEN <<>>
    ELSE IF Head(payload).job_index < Len(jobs)
         THEN <<Head(payload)>> \o Usable(Tail(payload))
         ELSE Usable(Tail(payload))

PyIndex(job_index) ==
    IF job_index >= 0 THEN job_index ELSE Len(jobs) + job_index

\* C4 (amended): a decoded match whose job_index is >= len(jobs) is skipped
\* on its own.  While no job_index is below -len(jobs), the request stays on
\* the primary path and the list holds only AI-scored entries, one per
\* remaining match among the first 10 after ranking; a job_index below
\* -len(jobs) raises and the whole list is fallback-scored.
C4_OutOfRangeSkipped ==
    (Returned /\ ~response.raises /\ response.text \in DecodableTexts) =>
        IF \A k \in 1..Len(response.payload) :
               response.payload[k].job_index >= 0 - Len(jobs)
        THEN /\ returned_by = "primary"
             /\ Len(matches) =
                    (IF Len(Usable(response.payload)) < 10
                     THEN Len(Usable(response.payload)) ELSE 10)
             /\ \A i \in 1..Len(matches) :
                    /\ IsAIEntry(matches[i])
                    /\ \E k \in 1..Len(response.payload) :
                           /\ response.payload[k].job_index < Len(jobs)
                           /\ PyIndex(response.payload[k].job_index)
                                  = matches[i].id
                           /\ response.payload[k].match_percentage
                                  = matches[i].match_percentage
        ELSE /\ returned_by = "parse_fallback"
             /\ \A i \in 1..Len(matches) : IsFallbackEntry(matches[i])

\* C4 witness: one match pointed past the end of the job list, another was
\* in range, and the in-range one came back AI-scored.
C4_Witness ==
    /\ Returned
    /\ returned_by = "primary"
    /\ \E k \in 1..Len(response.payload) :
           response.payload[k].job_index >= Len(jobs)
    /\ Len(matches) = 1
    /\ IsAIEntry(matches[1])

\* round(a / b) for a >= 0, b > 0, halves to the even neighbour
RoundDiv(a, b) ==
    LET q == a \div b
        r == a % b
    IN  IF 2 * r < b THEN q
        ELSE IF 2 * r > b THEN q + 1
        ELSE IF q % 2 = 0 THEN q ELSE q + 1

OwnMatching(e) == LowerSet(ScorerResume.skills) \cap LowerSet(e.requirements)
OwnMissing(e) == LowerSet(e.requirements) \ LowerSet(ScorerResume.skills)

FallbackReturned == Returned /\ returned_by # "primary"

\* C5 (as claimed): the fallback score of a job with requirements is
\* round(100 * |skills n requirements| / |requirements|), and 50 for a job
\* without requirements.
C5_FallbackRounds ==
    FallbackReturned =>
        \A i \in 1..Len(matches) :
            matches[i].match_percentage =
                IF LowerSet(matches[i].requirements) # {}
                THEN RoundDiv(100 * Cardinality(OwnMatching(matches[i])),
                              Cardinality(LowerSet(matches[i].requirements)))
                ELSE 50

\* C5 (amended): the fallback score of a job with requirements is
\* 100 * |skills n requirements| / |requirements| with the fraction dropped
\* (2 of 3 gives 66), and exactly 50 for a job without requirements.
C5_FallbackTruncates ==
    FallbackReturned =>
        \A i \in 1..Len(matches) :
            matches[i].match_percentage =
                IF LowerSet(matches[i].requirements) # {}
                THEN (100 * Cardinality(OwnMatching(matches[i])))
                         \div Cardinality(LowerSet(matches[i].requirements))
                ELSE 50

\* C5 witness: the fallback scored 2 of 3 requirements as 66, the spec's
\* 1-of-2 example as 50, and a job without requirements as 50.
C5_Witness ==
    /\ Returned
    /\ returned_by = "except_fallback"
    /\ resume_data.skills = <<"python", "react">>
    /\ \E i \in 1..Len(matches) :
           Len(matches[i].requirements) = 3 /\ matches[i].match_percentage = 66
    /\ \E i \in 1..Len(matches) :
           matches[i].requirements = <<>> /\ matches[i].match_percentage = 50

\* C6 (as claimed): for every job, at any position, the fallback's
\* matching_skills is the intersection of the lower-cased resume skills with
\* that job's own lower-cased requirements, and missing_skills is the job's
\* requirements minus the resume skills.
C6_OwnSkillSets ==
    FallbackReturned =>
        \A i \in 1..Len(matches) :
            /\ matches[i].matching_skills = OwnMatching(matches[i])
            /\ matches[i].missing_skills = OwnMissing(matches[i])

(***************************************************************************)
(* Properties of the Job Aggregator (checked under SpecFetch)              *)
(***************************************************************************)
FetchReturned == f_pc = "done"

NoCredentials ==
    ~serpapi_key /\ ~rapidapi_key /\ ~adzuna_app_id /\ ~adzuna_app_key

ApiNo(api) == CHOOSE n \in 1..Len(apis_to_try) : apis_to_try[n] = api

\* arrival order: provider priority, then title, then position in the answer
Before(a, b) ==
    \/ a[1] < b[1]
    \/ a[1] = b[1] /\ a[2] < b[2]
    \/ a[1] = b[1] /\ a[2] = b[2] /\ a[3] < b[3]

FromEarlier(api_no) == {id \in received : id[1] < api_no}

\* C7 (as claimed): with no provider credential configured, fetch_jobs
\* returns an empty list.
C7_NoCredentialsEmpty ==
    (FetchReturned /\ NoCredentials) => Len(fetched) = 0

\* C7 (amended): with no provider credential configured, no keyed provider
\* is requested and fetch_jobs returns only ArbeitsNow listings, at most
\* limit of them; the list is empty when the ArbeitsNow request did not
\* answer with listings.
C7_NoCredentialsOnlyArbeitnow ==
    (FetchReturned /\ NoCredentials) =>
        /\ Len(fetched) <= limit
        /\ \A i \in 1..Len(fetched) : fetched[i].source = "arbeitnow"
        /\ \A k \in 1..Len(requests) : requests[k].api = "arbeitnow"
        /\ last_call.kind # "ok" => Len(fetched) = 0

\* C7 witness: nothing is configured and a listing came back all the same.
C7_Witness ==
    /\ FetchReturned
    /\ NoCredentials
    /\ Len(provider_calls) = 4
    /\ Len(fetched) > 0

\* C8: fetch_jobs returns at most limit listings, and they are a prefix of
\* the providers' normalized listings taken in priority order, each
\* provider's listings in arrival order.
C8_PrefixInPriorityOrder ==
    FetchReturned =>
        /\ Len(fetched) <= limit
        /\ \A i \in 1..Len(fetched) :
               /\ fetched[i].id \in received
               /\ fetched[i].source = apis_to_try[fetched[i].id[1]]
               /\ \A r \in received :
                      Before(r, fetched[i].id) =>
                          \E k \in 1..(i - 1) : fetched[k].id = r
        /\ \A i \in 1..Len(fetched) : \A j \in 1..Len(fetched) :
               i < j => Before(fetched[i].id, fetched[j].id)
        /\ Len(fetched) < limit => Len(fetched) = Cardinality(received)

\* C8 witness: two providers delivered more than limit listings together
\* and the result was cut to limit.
C8_Witness ==
    /\ FetchReturned
    /\ Len(fetched) = limit
    /\ Cardinality(received) > limit
    /\ \E i \in 1..Len(fetched) : \E j \in 1..Len(fetched) :
           fetched[i].source # fetched[j].source

\* C9: a failed provider request contributes no listing and aborts nothing:
\* the provider's other titles are still requested, every later provider is
\* still called while fewer than limit listings are collected, and
\* fetch_jobs goes on to return.
C9_FailureIsLocal ==
    /\ Failed(last_call.kind) =>
           /\ \A id \in received :
                  ~(id[1] = last_call.at[1] /\ id[2] = last_call.at[2])
           /\ \A i \in 1..Len(all_jobs) :
                  ~(all_jobs[i].id[1] = last_call.at[1]
                    /\ all_jobs[i].id[2] = last_call.at[2])
    /\ f_pc \in {"loop", "done"} =>
           \A c \in 1..Len(provider_calls) :
               (provider_calls[c].api # "arbeitnow"
                /\ HasCredentials(provider_calls[c].api)) =>
                   \A t \in 1..Len(job_titles) :
                       \E k \in 1..Len(requests) :
                           /\ requests[k].api = provider_calls[c].api
                           /\ requests[k].title = job_titles[t]
    /\ FetchReturned =>
           \A n \in 1..Len(apis_to_try) :
               Cardinality(FromEarlier(n)) < limit =>
                   \E c \in 1..Len(provider_calls) :
                       provider_calls[c].api = apis_to_try[n]
    /\ f_pc \in {"loop", "provider"} => ENABLED FetchNext

\* C9 witness: a Google request raised, and Adzuna was called afterwards.
C9_Witness ==
    /\ last_call.kind = "exception"
    /\ last_call.api = "google_jobs"
    /\ \E c \in 1..Len(provider_calls) : provider_calls[c].api = "adzuna"

\* C10: a provider is called, and a request is issued, only while the
\* listings collected from the earlier providers number less than limit.
C10_NoCallOnceLimitReached ==
    /\ \A c \in 1..Len(provider_calls) :
           /\ provider_calls[c].collected < limit
           /\ Cardinality(FromEarlier(ApiNo(provider_calls[c].api))) < limit
    /\ \A k \in 1..Len(requests) :
           Cardinality(FromEarlier(ApiNo(requests[k].api))) < limit

\* C10 witness: the limit was reached with a provider left, which was
\* never called.
C10_Witness ==
    /\ FetchReturned
    /\ limit > 0
    /\ Len(all_jobs) >= limit
    /\ Len(provider_calls) > 0
    /\ \A c \in 1..Len(provider_calls) : provider_calls[c].api # "arbeitnow"

Completed == f_pc \in {"loop", "done"}

Called(api) == \E c \in 1..Len(provider_calls) : provider_calls[c].api = api

RequestsOf(api) == {k \in 1..Len(requests) : requests[k].api = api}

ReceivedFrom(api_no, title_no) ==
    {id \in received : id[1] = api_no /\ id[2] = title_no}

\* the settings a provider needs are not all present
CredentialsAbsent(api) ==
    \/ api = "google_jobs" /\ ~serpapi_key
    \/ api = "adzuna" /\ (~adzuna_app_id \/ ~adzuna_app_key)
    \/ api = "jsearch" /\ ~rapidapi_key

\* C11: a provider whose credentials are absent issues no request and
\* contributes no listing, and the provider after it is still called.
C11_MissingCredentialsSkipped ==
    Completed =>
        \A n \in 1..Len(apis_to_try) :
            (Called(apis_to_try[n]) /\ CredentialsAbsent(apis_to_try[n])) =>
                /\ RequestsOf(apis_to_try[n]) = {}
                /\ \A id \in received : id[1] # n
                /\ \A i \in 1..Len(all_jobs) : all_jobs[i].id[1] # n
                /\ (FetchReturned /\ n < Len(apis_to_try)) =>
                       Called(apis_to_try[n + 1])

\* C11 witness: Adzuna had only one of its two settings, was skipped, and
\* JSearch delivered a listing after it.
C11_Witness ==
    /\ FetchReturned
    /\ adzuna_app_id
    /\ ~adzuna_app_key
    /\ Called("adzuna")
    /\ \E i \in 1..Len(fetched) : fetched[i].source = "jsearch"

\* C12 (as claimed): every provider that is called and queried is requested
\* once per derived title, and per title it contributes at most
\* floor(remaining_limit / number_of_titles) listings.
C12_OncePerTitleCapped ==
    Completed =>
        \A c \in 1..Len(provider_calls) :
            HasCredentials(provider_calls[c].api) =>
                \A t \in 1..Len(job_titles) :
                    /\ Cardinality({k \in RequestsOf(provider_calls[c].api) :
                                      requests[k].title = job_titles[t]}) = 1
                    /\ Cardinality(ReceivedFrom(ApiNo(provider_calls[c].api), t))
                           <= provider_calls[c].remaining \div Len(job_titles)

\* C12 (amended): Google Jobs, Adzuna and JSearch are requested once per
\* derived title.  Google Jobs and Adzuna ask for
\* min(floor(remaining_limit / number_of_titles), 10) results per title as a
\* request parameter only; JSearch keeps at most
\* floor(remaining_limit / number_of_titles) listings per title.  ArbeitsNow
\* is requested once in total and keeps at most remaining_limit listings.
C12_PerTitleForKeyedProviders ==
    Completed =>
        \A c \in 1..Len(provider_calls) :
            LET api == provider_calls[c].api
                per_title == provider_calls[c].remaining \div Len(job_titles)
            IN  HasCredentials(api) =>
                    IF api = "arbeitnow"
                    THEN /\ Cardinality(RequestsOf(api)) = 1
                         /\ Cardinality({id \in received : id[1] = ApiNo(api)})
                                <= provider_calls[c].remaining
                    ELSE /\ Cardinality(RequestsOf(api)) = Len(job_titles)
                         /\ \A t \in 1..Len(job_titles) :
                                \E k \in RequestsOf(api) :
                                    /\ requests[k].title = job_titles[t]
                                    /\ api \in {"google_jobs", "adzuna"} =>
                                           requests[k].num =
                                               Min(per_title, PageSize)
                         /\ api = "jsearch" =>
                                \A t \in 1..Len(job_titles) :
                                    Cardinality(ReceivedFrom(ApiNo(api), t))
                                        <= per_title

\* C12 witness: JSearch kept one listing of a two-listing answer, and
\* ArbeitsNow was requested after it.
C12_Witness ==
    /\ Completed
    /\ \E id \in received : id[1] = ApiNo("jsearch")
    /\ RequestsOf("arbeitnow") # {}
    /\ \E k \in RequestsOf("jsearch") : requests[k].num = 1

\* C20: every returned listing carries the fixed market_insights block and
\* an experience_level: Fresher when its description has a fresher keyword
\* (even next to a senior keyword), Senior when it has a senior keyword and
\* no fresher keyword, Mid-level otherwise.
C20_ExperienceLevel ==
    FetchReturned =>
        \A i \in 1..Len(fetched) :
            LET has_fresher ==
                    \E w \in {"fresher", "entry level", "0-1 year"} :
                        w \in fetched[i].description
                has_senior ==
                    \E w \in {"senior", "lead", "5+ years"} :
                        w \in fetched[i].description
            IN  /\ fetched[i].market_insights.job_market = "India"
                /\ fetched[i].market_insights.currency = "INR"
                /\ fetched[i].market_insights.notice_period
                       = "30-60 days typical"
                /\ fetched[i].market_insights.visa_required = FALSE
                /\ has_fresher => fetched[i].experience_level = "Fresher"
                /\ (has_senior /\ ~has_fresher) =>
                       fetched[i].experience_level = "Senior"
                /\ (~has_senior /\ ~has_fresher) =>
                       fetched[i].experience_level = "Mid-level"

\* C20 witness: a listing naming both a fresher and a senior keyword came
\* back as Fresher, next to a Mid-level one.
C20_Witness ==
    /\ FetchReturned
    /\ \E i \in 1..Len(fetched) :
           /\ "fresher" \in fetched[i].description
           /\ "lead" \in fetched[i].description
           /\ fetched[i].experience_level = "Fresher"
    /\ \E i \in 1..Len(fetched) : fetched[i].experience_level = "Mid-level"

\* C17 (as claimed): every returned match, on the primary and on the
\* fallback path, has a match_percentage between 0 and 100, whatever the AI
\* answered.
C17_PercentageInRange ==
    Returned =>
        \A i \in 1..Len(matches) :
            matches[i].match_percentage \in 0..100

(***************************************************************************)
(* Properties of the request handler (checked under SpecApi)               *)
(***************************************************************************)
Answered == a_pc = "done"

\* the upload passed both validations
Accepted == SupportedExtension(upload.extension) /\ ~upload.too_large

ClientError == http_response.status \in 400..499

MaskedSuccess ==
    /\ http_response.status = 200
    /\ http_response.success
    /\ http_response.payload \in {"mock_import", "mock_fallback"}

\* extract_text was called: the upload was saved and every service was
\* imported and constructed
ExtractionAttempted ==
    /\ Accepted /\ upload.readable
    /\ imports_ok /\ gemini_api_key

\* C13 (as stated): a document with a supported extension that cannot be
\* opened or parsed ends the request with a client error, never with
\* success.
C13_UnparseableIsClientError ==
    (Answered /\ ExtractionAttempted /\ ~upload.parseable)
        => (ClientError /\ ~http_response.success)

\* C13 (amended): when text extraction fails on a document with a
\* supported extension, the request ends with a masked success (status
\* 200, success=true, the one fixed example match, 3 jobs analyzed) and
\* never with a client error.
C13_UnparseableIsMasked ==
    (Answered /\ ExtractionAttempted /\ ~upload.parseable)
        => /\ MaskedSuccess
           /\ ~ClientError
           /\ http_response.payload = "mock_fallback"
           /\ http_response.total_jobs_analyzed = 3
           /\ Len(http_response.matches) = 1

\* C13 witness: a legacy .doc that was saved, reached extract_text with
\* every service available, failed to parse and was answered.
C13_Witness ==
    /\ Answered
    /\ upload.extension = "doc"
    /\ ExtractionAttempted /\ ~upload.parseable
    /\ http_response.payload = "mock_fallback"
    /\ http_response.success
    /\ tmp_file = "deleted"

\* C14 (as stated): every unexpected error of an accepted upload ends in
\* success=true with status 200, never in an error status.
C14_AlwaysMasked ==
    (Answered /\ Accepted) =>
        (http_response.status = 200 /\ http_response.success)

\* C14 (amended): a rejected extension or size is answered 400; an error
\* while the upload is read or written to the temporary file is answered
\* 500; every error raised after the upload was saved (import, service
\* construction, text extraction) is masked as status 200 with
\* success=true and fixed example matches; only a run without any error
\* answers with the computed matches.
C14_MaskedAfterSave ==
    Answered =>
        /\ ~Accepted => http_response.status = 400
        /\ (Accepted /\ ~upload.readable) => http_response.status = 500
        /\ (Accepted /\ upload.readable) =>
               /\ http_response.status = 200
               /\ http_response.success
               /\ http_response.payload = "real" <=>
                      (imports_ok /\ gemini_api_key /\ upload.parseable)

\* C14 witness: the import of the services failed after the upload was
\* saved and the request was answered with the example matches.
C14_Witness ==
    /\ Answered
    /\ Accepted /\ upload.readable /\ ~imports_ok
    /\ http_response = ImportErrorResponse

\* C15 (as stated): on every exit path no temporary file remains once the
\* request has been answered.
C15_NoTempFileRemains ==
    Answered => tmp_file # "exists"

\* C16 (as stated): without the AI credential the request of a parseable
\* upload is answered with the fetched jobs ranked by the fallback scorer.
C16_NoKeyRanksByFallback ==
    (/\ Answered
     /\ Accepted /\ upload.readable /\ upload.parseable
     /\ imports_ok /\ ~gemini_api_key)
        => /\ http_response.status = 200
           /\ http_response.payload = "real"
           /\ returned_by \in {"except_fallback", "parse_fallback"}
           /\ http_response.matches = Take(matches, TopN)
           /\ http_response.total_jobs_analyzed = Len(jobs)

(***************************************************************************)
(* Properties of the experience extraction (checked under SpecExperience)  *)
(***************************************************************************)
Extracted == e_pc = "done"

WordAt(text, i) == IF i \in 1..Len(text) THEN text[i].w ELSE ""

YearWords == {"year", "years"}

\* the integers the six patterns capture somewhere in the lower-cased text,
\* pattern by pattern
CapturedBy(text) ==
    LET t == Lowered(text)
        plus(i) == { a \in {0, 1} : a = 1 => WordAt(t, i) = "+" }
        of(i) == { b \in {0, 1} : b = 1 => WordAt(t, i) = "of" }
        unit(i, ws) ==
            { n \in 1..2 : \E a \in plus(i + 1) :
                  /\ n = 1 + a
                  /\ WordAt(t, i + n) \in ws }
    IN  [p \in 1..6 |->
            { t[i].n : i \in { i \in 1..Len(t) :
                /\ t[i].w = "#"
                /\ CASE p = 1 -> \E n \in unit(i, YearWords) :
                                     \E b \in of(i + n + 1) :
                                         WordAt(t, i + n + 1 + b) = "experience"
                     [] p = 2 -> \E n \in unit(i, {"yr", "yrs"}) :
                                     \E b \in of(i + n + 1) :
                                         WordAt(t, i + n + 1 + b) = "experience"
                     [] p = 3 -> /\ unit(i, YearWords) # {}
                                 /\ \E c \in 0..Len(t) :
                                        /\ \A j \in 1..c : WordAt(t, i - j) = ":"
                                        /\ WordAt(t, i - c - 1) = "experience"
                     [] p = 4 -> \E n \in unit(i, YearWords) :
                                     /\ WordAt(t, i + n + 1) = "in"
                                     /\ WordAt(t, i + n + 2) \in
                                            {"software", "programming",
                                             "development"}
                     [] p = 5 -> /\ WordAt(t, i - 1) = "over"
                                 /\ WordAt(t, i + 1) \in YearWords
                     [] OTHER -> /\ WordAt(t, i - 1) = "than"
                                 /\ WordAt(t, i - 2) = "more"
                                 /\ WordAt(t, i + 1) \in YearWords } } ]

Captured(text) == UNION { CapturedBy(text)[p] : p \in 1..6 }

Example5 == <<Num(5)>> \o Words(<<"years", "of", "experience">>)

Example10 ==
    <<Num(3)>> \o Words(<<"years", "of", "experience", ",", "over">>)
        \o <<Num(10), Word("years")>>

\* C18: experience_years is the largest integer any of the six patterns
\* captures in the lower-cased text and 0 when none captures anything; it
\* is never negative; "5 years of experience" gives 5 and "3 years of
\* experience, over 10 years" gives 10.
C18_MaxOfCaptured ==
    Extracted =>
        /\ experience_years >= 0
        /\ Captured(resume_text) = {} => experience_years = 0
        /\ Captured(resume_text) # {} =>
               /\ experience_years \in Captured(resume_text)
               /\ \A n \in Captured(resume_text) : n <= experience_years
        /\ resume_text = Example5 => experience_years = 5
        /\ resume_text = Example10 => experience_years = 10

\* C18 witness: the second example, where a later pattern captures more
\* than the first one.
C18_Witness ==
    /\ Extracted
    /\ resume_text = Example10
    /\ CapturedBy(resume_text)[1] = {3}
    /\ CapturedBy(resume_text)[5] = {10}
    /\ experience_years = 10

(***************************************************************************)
(* Properties of the summary (checked under SpecSummary)                   *)
(***************************************************************************)
Summarized == s_pc = "done"

HasIndicator == \E i \in 1..Len(lines) : lines[i].indicator

FirstIndicatorLine ==
    CHOOSE i \in 1..Len(lines) :
        lines[i].indicator /\ \A j \in 1..(i - 1) : ~lines[j].indicator

\* C19 (as stated): when a line holds an indicator, the summary joins only
\* lines that are not all upper-case out of the 5 that follow the first
\* such line; the first-10-lines rule is used only when no line holds an
\* indicator; the summary has at most 500 characters.
C19_SectionOrFirstLines ==
    Summarized =>
        /\ HasIndicator =>
               \A k \in 1..Len(summary.parts) :
                   /\ summary.parts[k] \in
                          (FirstIndicatorLine + 1)..(FirstIndicatorLine + 5)
                   /\ ~lines[summary.parts[k]].upper
        /\ summary.length <= 500

(***************************************************************************)
(* Properties of the title derivation (checked under SpecTitles)           *)
(***************************************************************************)
Titled == f_pc = "titled"

\* the table entries whose key is a substring of, or contains, some
\* lower-cased skill of the request
MatchedEntries ==
    { n \in 1..Len(skill_to_job_mapping) :
        \E i \in 1..Len(fetch_skills) :
            \/ IsSubstring(skill_to_job_mapping[n].key, LowerStr(fetch_skills[i]))
            \/ IsSubstring(LowerStr(fetch_skills[i]), skill_to_job_mapping[n].key) }

\* C21: the derived title list has between 1 and 3 titles; when some key
\* matches a skill every title comes from the entry of a matching key;
\* when none matches every title is Software Developer or Software
\* Engineer.
C21_OneToThreeTitles ==
    Titled =>
        /\ Len(job_titles) \in 1..3
        /\ MatchedEntries # {} =>
               \A k \in 1..Len(job_titles) :
                   \E n \in MatchedEntries :
                       job_titles[k] \in skill_to_job_mapping[n].titles
        /\ MatchedEntries = {} =>
               \A k \in 1..Len(job_titles) :
                   job_titles[k] \in {"Software Developer", "Software Engineer"}

\* C21 witness: the skill "JavaScript" holds the keys java and javascript,
\* whose entries have five titles between them, and three were returned.
C21_Witness ==
    /\ Titled
    /\ fetch_skills = << <<"J", "a", "v", "a", "S", "c", "r", "i", "p", "t">> >>
    /\ MatchedEntries = {2, 3}
    /\ Len(job_titles) = 3
    /\ "Web Developer" \in {job_titles[k] : k \in 1..Len(job_titles)}

(***************************************************************************)
(* Properties of the outbound calls (checked under SpecCalls)              *)
(***************************************************************************)
\* C22: within one request the generative-AI service is called at most
\* once, no (provider, job title) pair is requested twice, whether the
\* request succeeded or failed, and no provider is entered twice.
C22_NoRetry ==
    /\ ai_calls <= 1
    /\ \A i \in 1..Len(requests) : \A j \in 1..Len(requests) :
           (i # j) =>
               <<requests[i].api, requests[i].title>> #
                   <<requests[j].api, requests[j].title>>
    /\ \A i \in 1..Len(provider_calls) : \A j \in 1..Len(provider_calls) :
           (i # j) => provider_calls[i].api # provider_calls[j].api

\* C22 witness: the request of the first provider for the first title
\* raised, and the provider stands at the second title with that one
\* request issued.
C22_Witness ==
    /\ f_pc = "provider"
    /\ last_call.kind = "exception"
    /\ last_call.at = <<1, 1>>
    /\ title_idx = 2
    /\ Len(requests) = 1
    /\ requests[1].title = job_titles[1]

(***************************************************************************)
(* Properties of the AI path's job positions (checked under SpecMatch)     *)
(***************************************************************************)
\* the positions of the jobs written into the prompt: jobs[:10]
PromptPositions == 0..(Min(TopN, Len(jobs)) - 1)

\* C23 (as stated): on the primary path every returned entry is the copy
\* of the input job at the job_index of some decoded match, and that
\* job_index is one of the positions written into the prompt; a negative
\* job_index and one of 10 or more produce no entry.
C23_IndexWithinPrompt ==
    (Returned /\ returned_by = "primary") =>
        \A i \in 1..Len(matches) :
            \E k \in 1..Len(response.payload) :
                /\ response.payload[k].job_index \in PromptPositions
                /\ matches[i].id = response.payload[k].job_index
                /\ matches[i].match_percentage =
                       response.payload[k].match_percentage

\* C24 (as stated): no input job position appears twice in the returned
\* list, on either path, so the list is never longer than the job list.
C24_PositionsAtMostOnce ==
    Returned =>
        /\ \A i \in 1..Len(matches) : \A j \in 1..Len(matches) :
               (i # j) => matches[i].id # matches[j].id
        /\ Len(matches) <= Len(jobs)

====
